---- MODULE Spec2Model ----
(***************************************************************************)
(* A model of app.py: the Streamlit chatbot that either chats with a       *)
(* hosted model (keeping a per-session history) or queries the Tavily      *)
(* search API.  One script run is started per user submission; the run     *)
(* blocks at its outbound calls, which is where the model splits it into   *)
(* steps.                                                                  *)
(*                                                                         *)
(* Python values.  An optional value (dict.get, secrets.get) is a sequence *)
(* of length 0 (None / key absent) or 1 (the value).  A piece of free text *)
(* whose characters matter (snippets, summaries) is a sequence of          *)
(* one-character strings; other strings are TLA+ strings.  A string built  *)
(* by concatenation (the transcript) is the sequence of its pieces.        *)
(***************************************************************************)
EXTENDS Integers, Sequences, FiniteSets, TLC

\* ---------------------------------------------------------------- bounds
MaxHistory == 2
MaxSubmissions == 3
MaxResults == 2

\* ------------------------------------------------------- python helpers
None == <<>>
Some(v) == <<v>>

\* Python truthiness of an optional string: None and "" are falsy.
Truthy(opt) == opt # None /\ opt[1] # ""

\* The same for an optional text (a sequence of characters).
TruthyText(opt) == opt # None /\ opt[1] # <<>>

\* dict.get(key, default)
GetOr(opt, default) == IF opt = None THEN default ELSE opt[1]

Whitespace == {" ", "\n"}

RECURSIVE LStrip(_)
LStrip(s) ==
    IF s # <<>> /\ Head(s) \in Whitespace THEN LStrip(Tail(s)) ELSE s

RECURSIVE RStrip(_)
RStrip(s) ==
    IF s # <<>> /\ s[Len(s)] \in Whitespace
    THEN RStrip(SubSeq(s, 1, Len(s) - 1))
    ELSE s

\* str.strip()
Strip(s) == RStrip(LStrip(s))

RECURSIVE Join(_, _)
\* sep.join(parts), where every part is itself a sequence of pieces
Join(sep, parts) ==
    IF parts = <<>> THEN <<>>
    ELSE IF Len(parts) = 1 THEN parts[1]
    ELSE parts[1] \o <<sep>> \o Join(sep, Tail(parts))

\* ------------------------------------------------------------- literals
ChatMode == "Chat with Gemini"
SearchMode == "Search with Tavily"
Modes == {ChatMode, SearchMode}

NL == "\n"
\* The source's prefixes end in an emoji (a purple heart after You, a robot
\* face after Bot); the module is ASCII, so the emoji are spelled out.
YouPrefix == "You[purple heart]: "
BotPrefix == "Bot[robot]: "
BotOpen == "Bot[robot]:"

Fallback == <<"N", "o", " ", "d", "e", "s", "c">>
NoTitle == "No title available"
NoUrl == "#"

\* -------------------------------------------------- the inputs' domains
GeminiSecretValues == {None, Some(""), Some("gk")}

TavilySecretValues == {None, Some(""), Some("tk")}

UserInputs == {"", "hello", "bye"}

BotReplies == {"Hi there!", "ok"}

\* What llm.invoke can do: raise, return an object with no `content`
\* attribute, or return a message with a content.
ChatOutcomes ==
    {[raised |-> TRUE, msg |-> "quota exceeded", content |-> None],
     [raised |-> FALSE, msg |-> "", content |-> None]}
    \cup {[raised |-> FALSE, msg |-> "", content |-> Some(r)] : r \in BotReplies}

\* A result dict of the upstream body; each key may be absent.
ResultPool ==
    {[title |-> Some("T1"), snippet |-> Some(<<"s">>), url |-> Some("u1")],
     [title |-> Some("T2"), snippet |-> None, url |-> Some("u2")],
     [title |-> None, snippet |-> Some(<<>>), url |-> None]}

RECURSIVE SeqsUpTo(_, _)
SeqsUpTo(S, n) ==
    IF n = 0 THEN {<<>>}
    ELSE LET shorter == SeqsUpTo(S, n - 1)
         IN shorter \cup {Append(s, e) : s \in {t \in shorter : Len(t) = n - 1}, e \in S}

\* What the HTTP POST can do: fail in transport, answer with a status
\* outside the success range, answer with a body that is not JSON, or
\* answer with a JSON object with or without a `results` array.
HttpOutcomes ==
    {[t |-> "transport", msg |-> "timed out", hasResults |-> FALSE, results |-> <<>>],
     [t |-> "status", msg |-> "500 Server Error", hasResults |-> FALSE, results |-> <<>>],
     [t |-> "badjson", msg |-> "Expecting value", hasResults |-> FALSE, results |-> <<>>],
     [t |-> "body", msg |-> "", hasResults |-> FALSE, results |-> <<>>]}
    \cup {[t |-> "body", msg |-> "", hasResults |-> TRUE, results |-> rs] :
            rs \in SeqsUpTo(ResultPool, MaxResults)}

\* What the summary model call can do: the api key reads as unset, the call
\* raises, the response holds no generation, or it holds a text.
SummaryTexts == {<<>>, <<" ">>, <<"a">>, <<" ", "a", "\n">>}

SummaryOutcomes ==
    {[t |-> "unconfigured", text |-> <<>>],
     [t |-> "raises", text |-> <<>>],
     [t |-> "nogenerations", text |-> <<>>]}
    \cup {[t |-> "text", text |-> x] : x \in SummaryTexts}

\* ---------------------------------------------------------------- state
VARIABLES
    secrets,      \* st.secrets: GEMINI_API_KEY, TAVILY_API_KEY
    keys,         \* what load_api_key returned in this run (None: it raised)
    history,      \* st.session_state["history"]
    mode,         \* the radio selection of the current run
    user_input,   \* the text input of the current run
    pc,           \* where the script run is
    full_input,   \* the transcript handed to llm.invoke
    response,     \* what llm.invoke did in this run (None: not called)
    http,         \* what the HTTP POST did in this run (None: not made)
    results,      \* what perform_tavily_search returned
    i,            \* the loop index of the result being rendered
    snippet,      \* the local `snippet` after the last loop body
    rendered,     \* what the run has written to the page
    crashed,      \* an exception left create_streamlit_chatbot
    nsub,         \* number of submissions so far
    inflight,     \* submissions in Processing
    hist0,        \* history when the current submission was accepted
    born          \* for each history entry, the submission that made it

vars == <<secrets, keys, history, mode, user_input, pc, full_input, response, http, results, i,
          snippet, rendered, crashed, nsub, inflight, hist0, born>>

NoResults == [raised |-> FALSE, isError |-> FALSE, error |-> "", items |-> <<>>]

\* ------------------------------------------------------ load_api_key
\* load_api_key with `and` for `or`: it raises only when both keys are unset.
load_api_key_and(s) ==
    IF ~Truthy(s.GEMINI_API_KEY) /\ ~Truthy(s.TAVILY_API_KEY)
    THEN [raised |-> TRUE, value |-> None]
    ELSE [raised |-> FALSE,
          value |-> Some(<<GetOr(s.GEMINI_API_KEY, ""), GetOr(s.TAVILY_API_KEY, "")>>)]

load_api_key(s) ==
    IF ~Truthy(s.GEMINI_API_KEY) \/ ~Truthy(s.TAVILY_API_KEY)
    THEN [raised |-> TRUE, value |-> None]
    ELSE [raised |-> FALSE,
          value |-> Some(<<s.GEMINI_API_KEY[1], s.TAVILY_API_KEY[1]>>)]

\* ------------------------------------------------ perform_tavily_search
\* try: post; raise_for_status; return json().get("results", [])
\* except Exception as e: return {"error": str(e)}
\* perform_tavily_search with requests.post outside the try block.
perform_tavily_search_post_outside_try(post) ==
    IF post.t = "transport"
    THEN [raised |-> TRUE, isError |-> FALSE, error |-> "", items |-> <<>>]
    ELSE IF post.t \in {"status", "badjson"}
    THEN [raised |-> FALSE, isError |-> TRUE, error |-> post.msg, items |-> <<>>]
    ELSE [raised |-> FALSE, isError |-> FALSE, error |-> "",
          items |-> IF post.hasResults THEN post.results ELSE <<>>]

perform_tavily_search(post) ==
    IF post.t \in {"transport", "status", "badjson"}
    THEN [raised |-> FALSE, isError |-> TRUE, error |-> post.msg, items |-> <<>>]
    ELSE [raised |-> FALSE, isError |-> FALSE, error |-> "",
          items |-> IF post.hasResults THEN post.results ELSE <<>>]

\* ------------------------------------------- generate_short_description
generate_short_description(title, o) ==
    CASE o.t = "unconfigured" -> Fallback
      [] o.t = "raises" -> Fallback
      [] o.t = "nogenerations" -> Fallback
      [] OTHER -> Strip(o.text)

\* ---------------------------------------------- create_streamlit_chatbot
\* `"error" in results`: a key test on the error dict, a membership test
\* on a list (whose elements are dicts, never the string "error").
HasErrorKey(res) == res.isError

\* `results is None` for `not results`: an empty list is not caught.
IsEmptyIsNone(res) == FALSE

\* `not results`
IsEmpty(res) == res.items = <<>>

\* The local `snippet` after one loop body.
SnippetOf(result, o) ==
    IF ~TruthyText(result.snippet)
    THEN generate_short_description(GetOr(result.title, NoTitle), o)
    ELSE result.snippet[1]

\* The two st.write calls of one loop body: the title and the link.
RenderedResult(result) ==
    <<"result", GetOr(result.title, NoTitle), GetOr(result.url, NoUrl)>>

\* context and full_input
Turn(chat) == <<YouPrefix, chat.user, NL, BotPrefix, chat.bot>>

\* full_input without the context.
full_input_without_context(h, x) == <<NL, YouPrefix, x, NL, BotOpen>>

full_input_of(h, x) ==
    Join(NL, [k \in 1..Len(h) |-> Turn(h[k])]) \o <<NL, YouPrefix, x, NL, BotOpen>>

\* Dispatch with the two mode strings exchanged.
DispatchExchanged(m) ==
    IF m = ChatMode THEN "search"
    ELSE IF m = SearchMode THEN "chat"
    ELSE "none"

\* The branch taken for a mode: "search", "chat", or neither.
Dispatch(m) ==
    IF m = SearchMode THEN "search"
    ELSE IF m = ChatMode THEN "chat"
    ELSE "none"

\* The append with insert(0, ...) for append.
ChatHistoryAfterInsertFirst(h, x, resp) ==
    IF resp.raised \/ resp.content = None THEN h
    ELSE <<[user |-> x, bot |-> resp.content[1]]>> \o h

\* The append with getattr(response, "content", "") for response.content.
ChatHistoryAfterDefaultContent(h, x, resp) ==
    IF resp.raised THEN h
    ELSE Append(h, [user |-> x, bot |-> GetOr(resp.content, "")])

\* The history kept to its last turn (a sliding window of one).
ChatHistoryAfterWindow(h, x, resp) ==
    IF resp.raised \/ resp.content = None THEN h
    ELSE <<[user |-> x, bot |-> resp.content[1]]>>

\* response = llm.invoke(full_input); history.append({... response.content})
\* The history after the chat branch, whether or not it raised part-way.
ChatHistoryAfter(h, x, resp) ==
    IF resp.raised \/ resp.content = None THEN h
    ELSE Append(h, [user |-> x, bot |-> resp.content[1]])

\* Whether the chat branch raised before its rendering.
ChatRaised(resp) == resp.raised \/ resp.content = None

ChatErrorText(resp) ==
    IF resp.raised THEN resp.msg ELSE "object has no attribute 'content'"

RECURSIVE RenderHistory(_)
RenderHistory(h) ==
    IF h = <<>> THEN <<>>
    ELSE <<<<"write", "**You:** ", Head(h).user>>,
           <<"write", "**Bot:** ", Head(h).bot>>>> \o RenderHistory(Tail(h))

\* The handler without its except clause.
HandlerMissing == FALSE

\* except Exception as e: st.error(...)   -- the run ends normally.
HandlerCatches == TRUE

ProcessingError(msg) == <<"error", "Error processing your request: ", msg>>

Init ==
    /\ secrets \in [GEMINI_API_KEY : GeminiSecretValues, TAVILY_API_KEY : TavilySecretValues]
    /\ keys = None
    /\ history = <<>>
    /\ mode = ChatMode
    /\ user_input = ""
    /\ pc = "Start"
    /\ full_input = <<>>
    /\ response = None
    /\ http = None
    /\ results = NoResults
    /\ i = 0
    /\ snippet = None
    /\ rendered = <<>>
    /\ crashed = FALSE
    /\ nsub = 0
    /\ inflight = {}
    /\ hist0 = <<>>
    /\ born = <<>>

\* One script run from its top to the first outbound call of its branch
\* (or to its end), with radio selection m and text input x.
Run(m, x, llmInitOk) ==
    LET loaded == load_api_key(secrets) IN
    /\ mode' = m
    /\ user_input' = x
    /\ keys' = loaded.value
    /\ hist0' = history
    /\ response' = None
    /\ http' = None
    /\ results' = NoResults
    /\ i' = 0
    /\ snippet' = None
    /\ full_input' = IF ~loaded.raised /\ llmInitOk /\ x # "" /\ Dispatch(m) = "chat"
                     THEN full_input_of(history, x) ELSE <<>>
    /\ IF loaded.raised
       THEN /\ rendered' = <<<<"error", "Error configuring APIs: ",
                               "API keys not set in Streamlit secrets.">>>>
            /\ pc' = "Halted"
            /\ inflight' = inflight
       ELSE IF ~llmInitOk
       THEN /\ rendered' = <<<<"error", "Error initializing Gemini model: ", "init">>>>
            /\ pc' = "Halted"
            /\ inflight' = inflight
       ELSE IF x = "" \/ Dispatch(m) = "none"
       THEN /\ rendered' = <<>>
            /\ pc' = "Idle"
            /\ inflight' = inflight
       ELSE /\ rendered' = <<>>
            /\ pc' = IF Dispatch(m) = "search" THEN "ProcessingSearch" ELSE "ProcessingChat"
            /\ inflight' = inflight \cup {nsub'}
    /\ UNCHANGED <<secrets, history, crashed, born>>

\* The first run of a session: the widgets hold their defaults.
Startup ==
    /\ pc = "Start"
    /\ nsub' = nsub
    /\ \E llmInitOk \in BOOLEAN : Run(ChatMode, "", llmInitOk)

\* The user changes the widgets and the script reruns.
Submit ==
    /\ pc = "Idle"
    /\ nsub < MaxSubmissions
    /\ nsub' = nsub + 1
    /\ \E m \in Modes, x \in UserInputs, llmInitOk \in BOOLEAN :
          /\ Run(m, x, llmInitOk)

\* The run ends: by the end of the script, or by an exception that the
\* handler did or did not catch.
Finish(raised) ==
    /\ pc' = IF raised /\ ~HandlerCatches THEN "Crashed" ELSE "Idle"
    /\ crashed' = (crashed \/ (raised /\ ~HandlerCatches))
    /\ inflight' = inflight \ {nsub}

\* The search call returns and the branch runs up to its loop.
SearchReturn ==
    /\ pc = "ProcessingSearch"
    /\ \E http_ \in HttpOutcomes :
         LET res == perform_tavily_search(http_) IN
         /\ http' = Some(http_)
         /\ results' = res
         /\ IF res.raised
            THEN /\ rendered' = <<ProcessingError(http_.msg)>>
                 /\ Finish(TRUE)
                 /\ i' = i
            ELSE IF HasErrorKey(res)
            THEN /\ rendered' = <<<<"error", "Tavily Search Error: ", res.error>>>>
                 /\ Finish(FALSE)
                 /\ i' = i
            ELSE IF IsEmpty(res)
            THEN /\ rendered' = <<<<"warning", "No results found for your query.", "">>>>
                 /\ Finish(FALSE)
                 /\ i' = i
            ELSE /\ rendered' = <<<<"markdown", "### Tavily Search Results", "">>>>
                 /\ i' = 1
                 /\ IF Len(res.items) = 0
                    THEN Finish(FALSE)   \* the loop has no body to run
                    ELSE /\ pc' = "RenderingResults"
                         /\ UNCHANGED <<crashed, inflight>>
    /\ UNCHANGED <<secrets, keys, history, mode, user_input, full_input, response,
                   snippet, nsub, hist0, born>>

\* One body of the loop over the results; o is what the summary call does
\* should the body make it.
RenderResult ==
    /\ pc = "RenderingResults"
    /\ \E o \in SummaryOutcomes :
         /\ TruthyText(results.items[i].snippet) => o.t = "unconfigured"
         /\ snippet' = Some(SnippetOf(results.items[i], o))
    /\ rendered' = Append(rendered, RenderedResult(results.items[i]))
    /\ i' = i + 1
    /\ IF i = Len(results.items)
       THEN Finish(FALSE)
       ELSE UNCHANGED <<pc, crashed, inflight>>
    /\ UNCHANGED <<secrets, keys, history, mode, user_input, full_input, response,
                   http, results, nsub, hist0, born>>

\* llm.invoke returns or raises and the chat branch runs to its end.
ChatReturn ==
    /\ pc = "ProcessingChat"
    /\ \E resp \in ChatOutcomes :
         /\ ~ChatRaised(resp) => Len(history) < MaxHistory
         /\ response' = Some(resp)
         /\ history' = ChatHistoryAfter(history, user_input, resp)
         /\ born' = IF Len(history') > Len(history) THEN Append(born, nsub) ELSE born
         /\ IF ChatRaised(resp)
            THEN /\ rendered' = <<ProcessingError(ChatErrorText(resp))>>
                 /\ Finish(TRUE)
            ELSE /\ rendered' = <<<<"markdown", "### Conversation History", "">>>>
                                \o RenderHistory(history')
                 /\ Finish(FALSE)
    /\ UNCHANGED <<secrets, keys, mode, user_input, full_input, http, results, i,
                   snippet, nsub, hist0>>

Next ==
    \/ Startup
    \/ Submit
    \/ SearchReturn
    \/ RenderResult
    \/ ChatReturn

Spec == Init /\ [][Next]_vars

\* Every outbound call returns or fails (the spec's proviso), and a run
\* that is not blocked continues.
FairSpec ==
    /\ Spec
    /\ WF_vars(SearchReturn)
    /\ WF_vars(RenderResult)
    /\ WF_vars(ChatReturn)

\* ================================================================ claims
IsPrefix(s, t) == Len(s) <= Len(t) /\ SubSeq(t, 1, Len(s)) = s

Processing == {"ProcessingSearch", "RenderingResults", "ProcessingChat"}

\* A chat submission has been handled to its end and the model call
\* returned a message with a content.
ChatSucceeded ==
    /\ pc = "Idle" /\ mode = ChatMode /\ user_input # ""
    /\ response # None /\ ~response[1].raised /\ response[1].content # None

\* A chat submission has been handled to its end and the model call raised
\* or returned an object without a content.
ChatFailed ==
    /\ pc = "Idle" /\ mode = ChatMode /\ user_input # ""
    /\ response # None /\ (response[1].raised \/ response[1].content = None)

\* C1: after a successful chat round with input x and reply r, the history
\* is the history h of before with the one entry {user: x, bot: r} appended
\* at its end; the entries of h keep their values and positions.
C1_ChatSuccessAppendsOneTurn ==
    ChatSucceeded =>
        /\ Len(history) = Len(hist0) + 1
        /\ \A k \in 1..Len(hist0) : history[k] = hist0[k]
        /\ history[Len(history)] = [user |-> user_input, bot |-> response[1].content[1]]

C1_Witness ==
    ChatSucceeded /\ Len(hist0) >= 1 /\ history[1] # history[Len(history)]

\* C2: after a failed chat round (the invocation raised, or the response
\* has no content) the history equals the history of before and the page
\* shows one error message and no turn.
C2_ChatFailureKeepsHistory ==
    ChatFailed =>
        /\ history = hist0
        /\ Len(rendered) = 1
        /\ rendered[1][1] = "error"

C2_Witness ==
    ChatFailed /\ Len(hist0) >= 1 /\ response[1].content = None /\ ~response[1].raised

\* C3: history is append-only: every step leaves the old history a prefix
\* of the new one, and the entries stand in the order of the submissions
\* that made them.
C3_HistoryAppendOnly ==
    [][/\ IsPrefix(history, history')
       /\ Len(born') = Len(history')
       /\ \A j, k \in 1..Len(born') : j < k => born'[j] < born'[k]]_vars

C3_Witness ==
    /\ Len(history) = 2
    /\ born[2] > born[1] + 1
    /\ pc = "Idle"

\* C4: a submission in Search mode leaves the history as it was, whatever
\* the search does; the history differs from the one at the submission only
\* after a successful chat round.
C4_SearchLeavesHistory ==
    /\ (mode = SearchMode /\ user_input # "") => history = hist0
    /\ history # hist0 => ChatSucceeded

C4_Witness ==
    /\ pc = "Idle" /\ mode = SearchMode /\ user_input # ""
    /\ Len(history) >= 1
    /\ Len(results.items) >= 1
    /\ snippet = Some(Fallback)

\* C5: the search client returns a value and never raises, whatever the
\* HTTP POST does, and when the transport fails or the status is outside
\* the success range the value is the error carrying the failure's message.
C5_SearchClientNeverRaises ==
    http # None =>
        /\ ~results.raised
        /\ ~crashed
        /\ http[1].t \in {"transport", "status"} =>
              (results.isError /\ results.error = http[1].msg)

C5_Witness ==
    /\ http # None /\ http[1].t = "transport"
    /\ pc = "Idle"
    /\ results.isError

\* C6: a finished search run has rendered exactly one of: the search error
\* (iff the client returned the error), the no-results notice (iff it
\* returned an empty sequence, as it does when the body has no results
\* field), or else a heading and one entry per element of the upstream
\* results array, as many and in the same order.
SearchFinished ==
    pc = "Idle" /\ mode = SearchMode /\ user_input # "" /\ http # None

RenderedError == Len(rendered) = 1 /\ rendered[1][1] = "error"

RenderedNotice == Len(rendered) = 1 /\ rendered[1][1] = "warning"

RenderedEntries ==
    LET upstream == http[1].results IN
    /\ Len(rendered) = Len(upstream) + 1
    /\ rendered[1][1] = "markdown"
    /\ \A k \in 1..Len(upstream) :
          /\ rendered[k + 1][1] = "result"
          /\ rendered[k + 1][2] =
                (IF upstream[k].title = None THEN NoTitle ELSE upstream[k].title[1])
          /\ rendered[k + 1][3] =
                (IF upstream[k].url = None THEN NoUrl ELSE upstream[k].url[1])

C6_SearchRendersOneOfThree ==
    SearchFinished =>
        /\ RenderedError <=> results.isError
        /\ RenderedError => rendered[1][3] = results.error
        /\ RenderedNotice <=> (~results.isError /\ results.items = <<>>)
        /\ (http[1].t = "body" /\ ~http[1].hasResults) => RenderedNotice
        /\ (~results.isError /\ results.items # <<>>) => RenderedEntries

C6_Witness ==
    /\ SearchFinished
    /\ Len(http[1].results) = 2
    /\ http[1].results[1] # http[1].results[2]
    /\ RenderedEntries

BothSecretsSet ==
    /\ secrets.GEMINI_API_KEY \notin {None, Some("")}
    /\ secrets.TAVILY_API_KEY \notin {None, Some("")}

C8_CredentialLoader ==
    pc # "Start" =>
        /\ BothSecretsSet =>
              keys = Some(<<secrets.GEMINI_API_KEY[1], secrets.TAVILY_API_KEY[1]>>)
        /\ ~BothSecretsSet =>
              /\ keys = None
              /\ pc = "Halted"
              /\ rendered = <<<<"error", "Error configuring APIs: ",
                                "API keys not set in Streamlit secrets.">>>>

C8_Witness ==
    /\ pc = "Idle"
    /\ keys = Some(<<"gk", "tk">>)
    /\ nsub >= 1

\* C9: the transcript handed to the chat model is, for every turn of the
\* history in order, its user line and its bot line, the turns separated by
\* a newline, then a newline, the user line of the new input, a newline and
\* the open bot prefix; with an empty history and input "hello" it is the
\* newline, the user line for "hello", a newline and the open bot prefix.
ChatCalled == pc = "ProcessingChat" \/ (pc = "Idle" /\ response # None)

C9_TranscriptIsHistoryThenInput ==
    ChatCalled =>
        LET n == Len(hist0)
            base == IF n = 0 THEN 0 ELSE 6 * n - 1
        IN /\ Len(full_input) = base + 5
           /\ \A k \in 1..n :
                 /\ full_input[6 * k - 5] = YouPrefix
                 /\ full_input[6 * k - 4] = hist0[k].user
                 /\ full_input[6 * k - 3] = NL
                 /\ full_input[6 * k - 2] = BotPrefix
                 /\ full_input[6 * k - 1] = hist0[k].bot
                 /\ k < n => full_input[6 * k] = NL
           /\ full_input[base + 1] = NL
           /\ full_input[base + 2] = YouPrefix
           /\ full_input[base + 3] = user_input
           /\ full_input[base + 4] = NL
           /\ full_input[base + 5] = BotOpen
           /\ (n = 0 /\ user_input = "hello") =>
                 full_input = <<"\n", YouPrefix, "hello", "\n", BotOpen>>

C9_Witness ==
    /\ pc = "ProcessingChat"
    /\ Len(hist0) = 2
    /\ hist0[1] # hist0[2]

\* C10: every accepted submission is handled to its end: while its outbound
\* calls return, the run leaves Processing for Idle with a result or an
\* error on the page; no error leaves the handler; and at most one
\* submission is in Processing at any time.
C10_HandledToCompletion ==
    /\ [](~crashed /\ pc # "Crashed")
    /\ [](Cardinality(inflight) <= 1 /\ (pc \in Processing <=> inflight = {nsub}))
    /\ \A p \in Processing : (pc = p) ~> (pc = "Idle" /\ rendered # <<>>)

C10_Witness ==
    /\ pc = "Idle"
    /\ nsub >= 2
    /\ inflight = {}
    /\ rendered = <<ProcessingError("quota exceeded")>>

====
